---- MODULE Spec2Model ----
(***************************************************************************)
(* Model of taller3/transformadores_red.py: the two table transformers     *)
(* (ConvertirObjectAString, LimpiarComillas), their composition            *)
(* pipeline_red, and the fit/transform pipeline of crear_pipeline_completo.*)
(*                                                                         *)
(* A string is a sequence of one-character strings.  A cell is a record:   *)
(*   [k |-> "str", s |-> string]      a Python str                          *)
(*   [k |-> "num", int |-> BOOLEAN, m |-> Nat, e |-> Nat]                   *)
(*                                    the number m / 10^e (int or float)    *)
(*   [k |-> "nan"]                    float NaN                             *)
(*   [k |-> "na"]                     pandas.NA                             *)
(* A table is [cols, dtypes, data] with data[c][r] the cell of column c,   *)
(* row r; dtypes[c] is "number", "object" or "string".                     *)
(***************************************************************************)
EXTENDS Integers, Sequences, FiniteSets, TLC

VARIABLES heap, ret, calls, cast_numeric, status, pl, plOut

cleanVars == <<heap, ret, calls, cast_numeric, status>>

pipeVars == <<pl, plOut>>

vars == <<heap, ret, calls, cast_numeric, status, pl, plOut>>

(***************************************************************************)
(* Bounds of the checked input space.                                      *)
(***************************************************************************)
MaxCellLen == 3
MaxCols == 3
MaxPipeRows == 2
MaxLabelCols == 5

(***************************************************************************)
(* Characters.                                                             *)
(***************************************************************************)
Digits == <<"0", "1", "2", "3", "4", "5", "6", "7", "8", "9">>

IsDigit(c) == \E i \in DOMAIN Digits : Digits[i] = c

DigitVal(c) == (CHOOSE i \in DOMAIN Digits : Digits[i] = c) - 1

\* the whitespace the number parser skips: space, \t, \n, \v, \f, \r (a
\* character without an escape is written by its name: "VT" is U+000B)
AsciiWhitespace == {" ", "\t", "\n", "VT", "\f", "\r"}

\* what the regex class \s matches in a str pattern: the Unicode whitespace
\* (U+001C..U+001F, U+0085, U+00A0, U+1680, U+2000..U+200A, U+2028, U+2029,
\* U+202F, U+205F, U+3000 besides the ASCII ones), written by name
WhitespaceChars ==
  AsciiWhitespace \cup
  {"FS", "GS", "RS", "US", "NEL", "NBSP", "U+1680", "U+2000", "U+2001", "U+2002",
   "U+2003", "U+2004", "U+2005", "U+2006", "U+2007", "U+2008", "U+2009", "U+200A",
   "U+2028", "U+2029", "U+202F", "U+205F", "U+3000"}

\* only the quotes
QuoteOnly == {"'"}

\* str.strip(" '") of a cell, line 23
CellStripChars == {" ", "'"}

\* .str.strip(" '") of the column names, line 39
HeaderStripChars == {" ", "'"}

RECURSIVE LStrip(_, _)
LStrip(s, cs) ==
  IF s = <<>> THEN s
  ELSE IF Head(s) \in cs THEN LStrip(Tail(s), cs) ELSE s

RECURSIVE RStrip(_, _)
RStrip(s, cs) ==
  IF s = <<>> THEN s
  ELSE IF s[Len(s)] \in cs THEN RStrip(SubSeq(s, 1, Len(s) - 1), cs) ELSE s

\* str.strip(chars)
StrStrip(s, cs) == RStrip(LStrip(s, cs), cs)

\* re.fullmatch(r"[0-9\.,\s]+", v), line 24
FullMatchNumeric(v) ==
  /\ Len(v) > 0
  /\ \A i \in 1..Len(v) : IsDigit(v[i]) \/ v[i] \in {".", ","} \/ v[i] \in WhitespaceChars

RECURSIVE StrReplace(_, _, _)
\* str.replace(old, new) for a one-character old and a string new
StrReplace(s, old, new) ==
  IF s = <<>> THEN <<>>
  ELSE (IF Head(s) = old THEN new ELSE <<Head(s)>>) \o StrReplace(Tail(s), old, new)

\* v.replace(" ", ""), line 25
RemoveSpaces(v) == StrReplace(v, " ", <<>>)

Contains(s, c) == \E i \in 1..Len(s) : s[i] = c

\* lines 27-28: the comma is a decimal separator when there is no period
CommaToPeriod(v_num) ==
  IF Contains(v_num, ",") /\ ~Contains(v_num, ".")
  THEN StrReplace(v_num, ",", <<".">>)
  ELSE v_num

(***************************************************************************)
(* Numbers: parsing (pandas.to_numeric) and formatting (str of a number).  *)
(***************************************************************************)
RECURSIVE Pow10(_)
Pow10(n) == IF n = 0 THEN 1 ELSE 10 * Pow10(n - 1)

RECURSIVE DigitsVal(_, _)
\* the value of a digit string, acc the value of the digits read so far
DigitsVal(s, acc) ==
  IF s = <<>> THEN acc ELSE DigitsVal(Tail(s), 10 * acc + DigitVal(Head(s)))

RECURSIVE NormNum(_, _)
\* m / 10^e without trailing zeros of the fraction
NormNum(m, e) ==
  IF e > 0 /\ m % 10 = 0 THEN NormNum(m \div 10, e - 1) ELSE <<m, e>>

NaN == [k |-> "nan"]
NA == [k |-> "na"]
Str(s) == [k |-> "str", s |-> s]
IntNum(n) == [k |-> "num", int |-> TRUE, m |-> n, e |-> 0]
FloatNum(m, e) == [k |-> "num", int |-> FALSE, m |-> NormNum(m, e)[1], e |-> NormNum(m, e)[2]]

\* position of the first period of s, 0 when there is none
PeriodAt(s) ==
  IF Contains(s, ".") THEN CHOOSE i \in 1..Len(s) : s[i] = "." /\ \A j \in 1..(i - 1) : s[j] # "."
  ELSE 0

\* the parser of pandas.to_numeric on one str, line 29: it skips leading
\* and trailing ASCII whitespace, reads digits with at most one period, gives an
\* int when there is no period, and onError for anything else
ParseNumber(s, onError) ==
  LET t == StrStrip(s, AsciiWhitespace)
      p == PeriodAt(t)
      ip == IF p = 0 THEN t ELSE SubSeq(t, 1, p - 1)
      fp == IF p = 0 THEN <<>> ELSE SubSeq(t, p + 1, Len(t))
      ok == /\ \A i \in 1..Len(ip) : IsDigit(ip[i])
            /\ \A i \in 1..Len(fp) : IsDigit(fp[i])
            /\ Len(ip) + Len(fp) > 0
  IN IF ~ok THEN onError
     ELSE IF p = 0 THEN IntNum(DigitsVal(ip, 0))
     ELSE FloatNum(DigitsVal(ip \o fp, 0), Len(fp))

\* errors="raise": the parse error propagates
ToNumericRaise(s) == ParseNumber(s, [k |-> "raise"])

\* pandas.to_numeric(s, errors="coerce"), line 29: NaN when the parse fails
ToNumericCoerce(s) == ParseNumber(s, NaN)

RECURSIVE IntToStr(_)
\* str(n) of a non-negative int: the f"{cnt}" of line 43
IntToStr(n) ==
  IF n < 10 THEN <<Digits[n + 1]>> ELSE IntToStr(n \div 10) \o <<Digits[(n % 10) + 1]>>

RECURSIVE ZeroPad(_, _)
ZeroPad(s, n) == IF Len(s) >= n THEN s ELSE ZeroPad(<<"0">> \o s, n)

\* str(x) of a number as astype("string") writes it, line 64: an int in
\* decimal, a float as its repr, which switches to exponent notation below
\* 1e-4
NumToStr(x) ==
  IF x.int THEN IntToStr(x.m)
  ELSE LET d == IntToStr(x.m)
           ex == x.e - (Len(d) - 1)
       IN IF x.m # 0 /\ ex > 4
          THEN <<d[1]>> \o (IF Len(d) > 1 THEN <<".">> \o SubSeq(d, 2, Len(d)) ELSE <<>>)
               \o <<"e", "-">> \o ZeroPad(IntToStr(ex), 2)
          ELSE IntToStr(x.m \div Pow10(x.e)) \o <<".">>
               \o (IF x.e = 0 THEN <<"0">> ELSE ZeroPad(IntToStr(x.m % Pow10(x.e)), x.e))

(***************************************************************************)
(* LimpiarComillas._clean_cell, lines 19-31.                               *)
(***************************************************************************)
\* lines 23-31, for a str
CleanStr(s, cast) ==
  LET v == StrStrip(s, CellStripChars)
  IN IF FullMatchNumeric(v)
     THEN LET v_num == RemoveSpaces(v)
          IN IF cast THEN ToNumericCoerce(CommaToPeriod(v_num))
             ELSE Str(v_num)
     ELSE Str(v)

CleanCell(val, cast) ==
  IF val.k # "str" THEN val
  ELSE CleanStr(val.s, cast)

(***************************************************************************)
(* The header phase, lines 39-45.                                          *)
(***************************************************************************)
\* the suffix counts from 2
SuffixedNameOffByOne(c, cnt) == IF cnt # 0 THEN c \o <<"_">> \o IntToStr(cnt + 1) ELSE c

\* f"{c}_{cnt}" if cnt else c, line 43
SuffixedName(c, cnt) == IF cnt # 0 THEN c \o <<"_">> \o IntToStr(cnt) ELSE c

RECURSIVE DedupLoop(_, _, _, _)
\* the loop of lines 41-44 from column i on: seen maps a name to its count
DedupLoop(cols_raw, i, seen, cols_clean) ==
  IF i > Len(cols_raw) THEN cols_clean
  ELSE LET c == cols_raw[i]
           cnt == IF c \in DOMAIN seen THEN seen[c] ELSE 0
       IN DedupLoop(cols_raw, i + 1,
                    [x \in DOMAIN seen \cup {c} |-> IF x = c THEN cnt + 1 ELSE seen[x]],
                    Append(cols_clean, SuffixedName(c, cnt)))

\* lines 40-44
DedupNames(cols_raw) == DedupLoop(cols_raw, 1, <<>>, <<>>)

\* lines 39-45
CleanHeaders(cols) ==
  DedupNames([i \in 1..Len(cols) |-> StrStrip(cols[i], HeaderStripChars)])

(***************************************************************************)
(* Tables.                                                                 *)
(***************************************************************************)
NCols(X) == Len(X.cols)

\* select_dtypes(include=["object", "string"]), lines 48 and 63
IsObjCol(X, c) == X.dtypes[c] \in {"object", "string"}

\* the dtype pandas infers for a column of mapped cells: the column keeps
\* its dtype when it has no rows, is numeric when every cell is a number
\* or NaN, and is object otherwise
InferDtype(old, column) ==
  IF Len(column) = 0 THEN old
  ELSE IF \A r \in 1..Len(column) : column[r].k \in {"num", "nan"} THEN "number"
  ELSE "object"

\* astype("string") of one cell, line 64
AsStringCell(val) ==
  IF val.k = "str" THEN val
  ELSE IF val.k = "num" THEN Str(NumToStr(val))
  ELSE NA

\* the element of a one-element set
TheOne(S) == CHOOSE x \in S : TRUE

\* the positions of the columns of X labelled name, in column order
PositionsOf(X, name) ==
  SelectSeq([c \in 1..NCols(X) |-> c], LAMBDA c : X.cols[c] = name)

\* select_dtypes(include=["object", "string"]).columns, lines 48 and 63:
\* the labels of the object and string columns, in column order
ObjCols(X) ==
  LET pos == SelectSeq([c \in 1..NCols(X) |-> c], LAMBDA c : IsObjCol(X, c))
  IN [j \in 1..Len(pos) |-> X.cols[pos[j]]]

\* ConvertirObjectAString.transform on the copy, lines 63-65: X[col] is
\* every column labelled col, so a column is converted when an object or
\* string column has its label
ConvertirBody(X) ==
  LET conv(c) == \E j \in 1..Len(ObjCols(X)) : ObjCols(X)[j] = X.cols[c]
  IN [cols |-> X.cols,
      dtypes |-> [c \in 1..NCols(X) |-> IF conv(c) THEN "string" ELSE X.dtypes[c]],
      data |-> [c \in 1..NCols(X) |->
                  IF conv(c)
                  THEN [r \in 1..Len(X.data[c]) |-> AsStringCell(X.data[c][r])]
                  ELSE X.data[c]]]

\* applymap of line 49 on one column
MapColumn(column, cast) == [r \in 1..Len(column) |-> CleanCell(column[r], cast)]

RECURSIVE Flatten(_)
Flatten(ss) == IF ss = <<>> THEN <<>> ELSE Head(ss) \o Flatten(Tail(ss))

\* X[obj_cols].applymap(...), line 49: the selection is by label, one copy
\* of every column of the label for each entry of key; from is the position
\* in X each selected column was taken at
MappedSelection(X, key, cast) ==
  LET sel == Flatten([j \in 1..Len(key) |-> PositionsOf(X, key[j])])
  IN [from |-> sel,
      cols |-> [i \in 1..Len(sel) |-> X.cols[sel[i]]],
      dtypes |-> [i \in 1..Len(sel) |->
                    InferDtype(X.dtypes[sel[i]], MapColumn(X.data[sel[i]], cast))],
      data |-> [i \in 1..Len(sel) |-> MapColumn(X.data[sel[i]], cast)]]

RECURSIVE AssignLoop(_, _, _, _)
\* X[obj_cols] = value, line 49, from the j-th label of key on: pandas runs
\* X[k1] = value[k2] over zip(key, value.columns); value[k2] is every
\* column of value labelled k2 and must be one column or as many as X has
\* of k1, else ValueError
AssignLoop(X, key, value, j) ==
  IF j > Len(key) THEN [raised |-> FALSE, table |-> X]
  ELSE LET src == PositionsOf(value, value.cols[j])
           tgt == PositionsOf(X, key[j])
           from(c) == IF Len(src) = 1 THEN src[1]
                      ELSE src[CHOOSE q \in 1..Len(tgt) : tgt[q] = c]
           hit(c) == \E q \in 1..Len(tgt) : tgt[q] = c
       IN IF Len(src) > 1 /\ Len(src) # Len(tgt)
          THEN [raised |-> TRUE, table |-> X]
          ELSE TheOne({AssignLoop(written, key, value, j + 1) :
                         written \in {[cols |-> X.cols,
                                       dtypes |-> [c \in 1..NCols(X) |->
                                                     IF hit(c) THEN value.dtypes[from(c)]
                                                     ELSE X.dtypes[c]],
                                       data |-> [c \in 1..NCols(X) |->
                                                   IF hit(c) THEN value.data[from(c)]
                                                   ELSE X.data[c]]]}})

\* lines 48-51 on the renamed copy, value being the cleaned columns: the
\* table left, whether the call raised, and the cleaned columns
CellPhase(renamed, value) ==
  IF \E i \in 1..Len(value.data) : \E r \in 1..Len(value.data[i]) :
       value.data[i][r].k = "raise"
  THEN [raised |-> TRUE, table |-> renamed, mapped |-> value]
  ELSE TheOne({[raised |-> a.raised, table |-> a.table, mapped |-> value] :
                 a \in {AssignLoop(renamed, ObjCols(renamed), value, 1)}})

\* LimpiarComillas.transform on the copy, lines 39-52
LimpiarBody(X, cast) ==
  TheOne({TheOne({CellPhase(renamed, value) :
                    value \in {MappedSelection(renamed, ObjCols(renamed), cast)}}) :
            renamed \in {[X EXCEPT !.cols = CleanHeaders(X.cols)]}})

(***************************************************************************)
(* The calls.  The heap holds the tables by reference; ret is the          *)
(* reference the last call returned (0: the caller's table).               *)
(***************************************************************************)
\* pipeline_red, lines 68-71
PipelineRed == <<"convertir", "limpiar">>

\* the call sequences followed: the Cell Cleaner alone, and pipeline_red
\* applied to a table and then to its own result
Runs == {<<"limpiar">>, PipelineRed \o PipelineRed}

Refs == 0..Len(PipelineRed \o PipelineRed)

NoTable == [cols |-> <<>>, dtypes |-> <<>>, data |-> <<>>]

\* a call that cleaned no column
NoMapped == [from |-> <<>>, cols |-> <<>>, dtypes |-> <<>>, data |-> <<>>]

IsPrefix(s, t) == Len(s) <= Len(t) /\ SubSeq(t, 1, Len(s)) = s

CanCall(op) ==
  /\ status = "ok"
  /\ \E run \in Runs : IsPrefix(Append([i \in 1..Len(calls) |-> calls[i].op], op), run)

Fresh == Len(calls) + 1

\* without the copy: X stays bound to the argument
NoCopy(src, fresh) == src

\* X = X.copy(), line 37: the reference X is bound to
LimpiarCopy(src, fresh) == fresh

\* X = X.copy(), line 62
ConvertirCopy(src, fresh) == fresh

\* ConvertirObjectAString.transform, lines 61-65
ConvertirTransform ==
  /\ CanCall("convertir")
  /\ LET dst == ConvertirCopy(ret, Fresh)
     IN /\ heap' = [heap EXCEPT ![dst] = ConvertirBody(heap[ret])]
        /\ calls' = Append(calls, [op |-> "convertir", arg |-> ret, before |-> heap[ret],
                                   ret |-> dst, raised |-> FALSE, mapped |-> NoMapped])
        /\ ret' = dst
  /\ UNCHANGED <<cast_numeric, status, pipeVars>>

\* LimpiarComillas.transform, lines 36-52
LimpiarTransform ==
  /\ CanCall("limpiar")
  /\ \E dst \in {LimpiarCopy(ret, Fresh)} : \E res \in {LimpiarBody(heap[ret], cast_numeric)} :
        /\ heap' = [heap EXCEPT ![dst] = res.table]
        /\ calls' = Append(calls, [op |-> "limpiar", arg |-> ret, before |-> heap[ret],
                                   ret |-> dst, raised |-> res.raised, mapped |-> res.mapped])
        /\ ret' = IF res.raised THEN ret ELSE dst
        /\ status' = IF res.raised THEN "raised" ELSE "ok"
  /\ UNCHANGED <<cast_numeric, pipeVars>>

Next ==
  \/ ConvertirTransform
  \/ LimpiarTransform

(***************************************************************************)
(* Inputs.                                                                 *)
(***************************************************************************)
StringsUpTo(alphabet, n) == UNION {[1..k -> alphabet] : k \in 0..n}

CellAlphabet == {"'", " ", "\t", "NBSP", "1", ",", ".", "a"}

\* a numeric text whose value is below 1e-4
SmallNumberText == <<".", "0", "0", "0", "0", "1">>

TextCells == {Str(s) : s \in StringsUpTo(CellAlphabet, MaxCellLen) \cup {SmallNumberText}}

NumberCells == {IntNum(1), FloatNum(15, 1), NaN}

\* the second row of a two-row column
Companions == {Str(<<"a", " ">>)}

\* one column named x: a first row of any kind and at most one more row
CellColumns ==
  LET rows(first) == {<<first>>} \cup {<<first, w>> : w \in Companions}
  IN    {[dtype |-> d, column |-> col] : d \in {"object", "string"},
              col \in UNION {rows(f) : f \in TextCells \cup {NA}}}
   \cup {[dtype |-> "object", column |-> col] : col \in UNION {rows(f) : f \in NumberCells}}
   \cup {[dtype |-> "number", column |-> <<f>>] : f \in NumberCells}

CellTables ==
  {[cols |-> <<<<"x">>>>, dtypes |-> <<cc.dtype>>, data |-> <<cc.column>>] : cc \in CellColumns}

HeaderNames ==
  {<<"x">>, <<"'", "x", " ">>, <<"\t", "x">>, <<"x", "_", "1">>, <<"y">>, <<"'", "y", "'">>}

\* tables without rows: up to MaxCols columns of any name and kind
HeaderTables ==
  UNION {{[cols |-> [c \in 1..n |-> hs[c][1]],
           dtypes |-> [c \in 1..n |-> hs[c][2]],
           data |-> [c \in 1..n |-> <<>>]] :
            hs \in [1..n -> HeaderNames \X {"number", "object"}]} : n \in 0..MaxCols}

\* the names of which the header phase makes x, x_1, x_2 more than once
LabelNames == {<<"x">>, <<"x", "_", "1">>, <<"x", "_", "2">>}

\* the cell of column c of a one-row table: its position as a number, or
\* a text that holds its position
LabelCell(c, dtype) ==
  IF dtype = "number" THEN IntNum(c) ELSE Str(<<"'", "a", Digits[c + 1], " ">>)

\* one-row tables of up to MaxLabelCols columns of any of these names and kinds
LabelTables ==
  UNION {{[cols |-> [c \in 1..n |-> hs[c][1]],
           dtypes |-> [c \in 1..n |-> hs[c][2]],
           data |-> [c \in 1..n |-> <<LabelCell(c, hs[c][2])>>]] :
            hs \in [1..n -> LabelNames \X {"number", "object"}]} : n \in 0..MaxLabelCols}

\* the texts of the categorical column: two words and a numeric text
PipeCategories == {<<"a">>, <<"b">>, <<"1">>}

\* tables with a numeric column n and a textual column c, one row or more
PipeTables ==
  UNION {{[cols |-> <<<<"n">>, <<"c">>>>,
           dtypes |-> <<"number", "object">>,
           data |-> <<[r \in 1..k |-> IntNum(rows[r][1])], [r \in 1..k |-> Str(rows[r][2])]>>] :
            rows \in [1..k -> {1, 3} \X PipeCategories]} : k \in 1..MaxPipeRows}

NoPipeline == [stage |-> "none"]

NoOutput == [made |-> FALSE]

InitWith(tables) ==
  /\ \E T \in tables : heap = [r \in Refs |-> IF r = 0 THEN T ELSE NoTable]
  /\ ret = 0
  /\ calls = <<>>
  /\ cast_numeric \in BOOLEAN
  /\ status = "ok"
  /\ pl = NoPipeline
  /\ plOut = NoOutput

InitCell == InitWith(CellTables)

InitHeader == InitWith(HeaderTables)

SpecCell == InitCell /\ [][Next]_vars

SpecHeader == InitHeader /\ [][Next]_vars

InitLabel == InitWith(LabelTables)

SpecLabel == InitLabel /\ [][Next]_vars

(***************************************************************************)
(* crear_pipeline_completo, lines 73-94, and the fit and transform of the  *)
(* pipeline it returns.                                                    *)
(***************************************************************************)
\* line 81: the names of the object and string columns of X
ColumnasCategoricas(X) == {X.cols[c] : c \in {d \in 1..NCols(X) : IsObjCol(X, d)}}

\* line 82: the names of the numeric columns of X
ColumnasNumericas(X) == {X.cols[c] : c \in {d \in 1..NCols(X) : X.dtypes[d] = "number"}}

\* handle_unknown of the OneHotEncoder, line 87
HandleUnknown == "ignore"

\* the "limpieza" step, line 91: pipeline_red with its LimpiarComillas()
\* of line 70, whose cast_numeric is the default True of line 16
Limpieza(X) == TheOne({LimpiarBody(Xs, TRUE) : Xs \in {ConvertirBody(X)}})

\* the column of X named name (ColumnTransformer selects by name)
ColumnNamed(X, name) == CHOOSE c \in 1..NCols(X) : X.cols[c] = name

HasColumns(X, names) == \A nm \in names : \E c \in 1..NCols(X) : X.cols[c] = nm

RECURSIVE SumSeq(_)
SumSeq(xs) == IF xs = <<>> THEN 0 ELSE Head(xs) + SumSeq(Tail(xs))

\* a cell as a category: numbers compare by value, texts by their characters
CategoryOf(cell) ==
  IF cell.k = "num" THEN <<"number", cell.m, cell.e>>
  ELSE IF cell.k = "str" THEN <<"text", cell.s>>
  ELSE <<"nan">>

\* StandardScaler.fit on a column of ints, line 86: what the mean and the
\* variance are computed from (count, sum, sum of squares)
ScalerFit(column) ==
  [n |-> Len(column),
   sum |-> SumSeq([r \in 1..Len(column) |-> column[r].m]),
   sumsq |-> SumSeq([r \in 1..Len(column) |-> column[r].m * column[r].m])]

\* StandardScaler.transform: x - mean as a fraction, to be divided by the
\* fitted standard deviation sqrt(varnum / (n * n))
ScalerTransform(column, st) ==
  [r \in 1..Len(column) |->
     [num |-> column[r].m * st.n - st.sum, den |-> st.n,
      varnum |-> st.n * st.sumsq - st.sum * st.sum]]

\* the kind of the values of a cleaned column as the encoder sees them
ColumnKind(column) ==
  IF \A r \in 1..Len(column) : column[r].k \in {"num", "nan"} THEN "number"
  ELSE IF \A r \in 1..Len(column) : column[r].k = "str" THEN "text"
  ELSE "mixed"

\* OneHotEncoder.fit on one column, line 87: the distinct values; a column
\* mixing text and numbers cannot be sorted and raises TypeError
EncoderFit(column) ==
  [raised |-> ColumnKind(column) = "mixed",
   kind |-> ColumnKind(column),
   categories |-> {CategoryOf(column[r]) : r \in 1..Len(column)}]

\* OneHotEncoder.transform on one column, line 87.  With handle_unknown
\* "ignore" an unknown row is overwritten with categories_[0] before the
\* encoding and its indicators zeroed; in a numeric column whose fitted
\* categories are text this assignment raises.  With "error" any unknown
\* value raises.
EncoderTransform(column, enc, handle_unknown) ==
  LET known(r) == CategoryOf(column[r]) \in enc.categories
      unknown == \E r \in 1..Len(column) : ~known(r)
  IN [raised |-> unknown /\ (\/ handle_unknown = "error"
                             \/ (ColumnKind(column) = "number" /\ enc.kind = "text")),
      onehot |-> [r \in 1..Len(column) |->
                    [cat \in enc.categories |-> IF CategoryOf(column[r]) = cat THEN 1 ELSE 0]]]

\* crear_pipeline_completo(X), lines 73-94
CrearPipelineCompleto(X) ==
  /\ pl = NoPipeline
  /\ X \in PipeTables
  /\ pl' = [stage |-> "built", cat |-> ColumnasCategoricas(X), num |-> ColumnasNumericas(X),
            built_on |-> X]
  /\ UNCHANGED <<plOut, cleanVars>>

\* pipeline_completo.fit(X) on the table the pipeline was built on
PipelineFit ==
  /\ pl.stage = "built"
  /\ \E cl \in {Limpieza(pl.built_on)} :
     LET Xc == cl.table
         ok == ~cl.raised /\ HasColumns(Xc, pl.cat \cup pl.num)
         encs == [nm \in pl.cat |-> EncoderFit(Xc.data[ColumnNamed(Xc, nm)])]
     IN IF ok /\ \A nm \in pl.cat : ~encs[nm].raised
        THEN pl' = [pl EXCEPT !.stage = "fitted"]
                     @@ [scaler |-> [nm \in pl.num |-> ScalerFit(Xc.data[ColumnNamed(Xc, nm)])],
                         encoder |-> encs]
        ELSE pl' = [pl EXCEPT !.stage = "fit_raised"]
  /\ UNCHANGED <<plOut, cleanVars>>

\* pipeline_completo.transform(X) on a table with the columns of the fit
PipelineTransform(X) ==
  /\ pl.stage = "fitted"
  /\ X \in PipeTables
  /\ \E cl \in {Limpieza(X)} :
     LET Xc == cl.table
         encd == [nm \in pl.cat |->
                    EncoderTransform(Xc.data[ColumnNamed(Xc, nm)], pl.encoder[nm], HandleUnknown)]
     IN plOut' = [made |-> TRUE, input |-> X, fitted |-> pl,
                  raised |-> cl.raised \/ \E nm \in pl.cat : encd[nm].raised,
                  scaled |-> [nm \in pl.num |->
                                ScalerTransform(Xc.data[ColumnNamed(Xc, nm)], pl.scaler[nm])],
                  onehot |-> [nm \in pl.cat |-> encd[nm].onehot]]
  /\ UNCHANGED <<pl, cleanVars>>

NextPipe ==
  \/ \E X \in PipeTables : CrearPipelineCompleto(X)
  \/ PipelineFit
  \/ \E X \in PipeTables : PipelineTransform(X)

InitPipe ==
  /\ heap = [r \in Refs |-> NoTable]
  /\ ret = 0
  /\ calls = <<>>
  /\ cast_numeric = TRUE
  /\ status = "ok"
  /\ pl = NoPipeline
  /\ plOut = NoOutput

SpecPipe == InitPipe /\ [][NextPipe]_vars

(***************************************************************************)
(* Vocabulary of the properties.                                           *)
(***************************************************************************)
LimpiarCalls == {i \in DOMAIN calls : calls[i].op = "limpiar"}

\* the calls of the Cell Cleaner that returned a table
Returned == {i \in LimpiarCalls : ~calls[i].raised}

In(i) == calls[i].before

Out(i) == heap[calls[i].ret]

\* the value of a cell: missing, a number, or a text
Val(cell) ==
  IF cell.k \in {"na", "nan"} THEN <<"missing">>
  ELSE IF cell.k = "num" THEN <<"number", cell.m, cell.e>>
  ELSE IF cell.k = "str" THEN <<"text", cell.s>>
  ELSE <<"none">>

Missing(cell) == Val(cell) = <<"missing">>

\* s without its longest prefix and suffix made of the characters cs
Trimmed(s, cs) ==
  LET keep == {i \in 1..Len(s) : s[i] \notin cs}
  IN IF keep = {} THEN <<>>
     ELSE SubSeq(s, CHOOSE i \in keep : \A j \in keep : i <= j,
                    CHOOSE i \in keep : \A j \in keep : i >= j)

\* s without any character of cs
Without(s, cs) == SelectSeq(s, LAMBDA ch : ch \notin cs)

QuoteAndSpace == {"'", " "}

QuoteAndWhitespace == {"'"} \cup WhitespaceChars

\* only digits, periods, commas and whitespace, at least one character
NumericLooking(v) ==
  v # <<>> /\ \A i \in 1..Len(v) : v[i] \in {Digits[d] : d \in DOMAIN Digits} \cup {".", ","} \cup WhitespaceChars

\* the textual cells the Cell Cleaner of call i met: <<column, row>>
TextCellsOf(i) ==
  UNION {{<<c, r>> : r \in {q \in 1..Len(In(i).data[c]) : In(i).data[c][q].k = "str"}} :
           c \in {d \in 1..NCols(In(i)) : IsObjCol(In(i), d)}}

\* the textual cells the cell function of call i was applied to:
\* <<cleaned column, row>>
MappedTextCells(i) ==
  UNION {{<<j, r>> : r \in {q \in 1..Len(calls[i].mapped.data[j]) :
                               In(i).data[calls[i].mapped.from[j]][q].k = "str"}} :
           j \in 1..Len(calls[i].mapped.data)}

\* the cell it was given and the value it returned
GivenCell(i, jr) == In(i).data[calls[i].mapped.from[jr[1]]][jr[2]]

ReturnedCell(i, jr) == calls[i].mapped.data[jr[1]][jr[2]]

InCell(i, cr) == In(i).data[cr[1]][cr[2]]

OutCell(i, cr) == Out(i).data[cr[1]][cr[2]]

\* the names the header phase gives, for base names trimmed of cs: the
\* k-th later column of a base name is base_k
HeaderNamesFor(raw, cs) ==
  [i \in 1..Len(raw) |->
     LET base == Trimmed(raw[i], cs)
         k == Cardinality({j \in 1..(i - 1) : Trimmed(raw[j], cs) = base})
     IN IF k = 0 THEN base ELSE base \o <<"_">> \o IntToStr(k)]

SameTable(A, B) ==
  /\ A.cols = B.cols
  /\ Len(A.data) = Len(B.data)
  /\ \A c \in 1..Len(A.data) :
       /\ Len(A.data[c]) = Len(B.data[c])
       /\ \A r \in 1..Len(A.data[c]) : Val(A.data[c][r]) = Val(B.data[c][r])

(***************************************************************************)
(* C1.  The column names of a table the Cell Cleaner returns are pairwise  *)
(* distinct.                                                               *)
(***************************************************************************)
C1_DistinctNames ==
  \A i \in Returned :
    \A c1, c2 \in 1..NCols(Out(i)) : c1 # c2 => Out(i).cols[c1] # Out(i).cols[c2]

(***************************************************************************)
(* C2 as stated.  The base name of a column is its raw name without        *)
(* leading and trailing quotes and whitespace; the first column of a base  *)
(* name keeps it and the k-th later one is named base_k; the number and    *)
(* order of the columns are unchanged.                                     *)
(***************************************************************************)
C2_HeaderPhaseWhitespace ==
  \A i \in Returned : Out(i).cols = HeaderNamesFor(In(i).cols, QuoteAndWhitespace)

(***************************************************************************)
(* C2 amended.  The base name of a column is its raw name without leading  *)
(* and trailing quotes and space characters (other whitespace is kept);    *)
(* the first column of a base name keeps it and the k-th later one is      *)
(* named base_k, counted per base name; the number and order of the        *)
(* columns are unchanged.                                                  *)
(***************************************************************************)
C2_HeaderPhase ==
  \A i \in Returned :
    /\ Len(Out(i).cols) = Len(In(i).cols)
    /\ Out(i).cols = HeaderNamesFor(In(i).cols, QuoteAndSpace)

\* three columns of one base name, one of them quoted, and a column of
\* another base name in between, were renamed
C2_Witness ==
  \E i \in Returned :
    /\ In(i).cols = <<<<"x">>, <<"'", "y", "'">>, <<"'", "x", " ">>>>
    /\ Out(i).cols = <<<<"x">>, <<"y">>, <<"x", "_", "1">>>>

(***************************************************************************)
(* C3.  clean is idempotent: cleaning the result of clean gives a table    *)
(* with the same column names and the same cell values.                    *)
(***************************************************************************)
C3_Idempotent ==
  (Len(calls) = Len(PipelineRed \o PipelineRed) /\ status = "ok")
    => SameTable(heap[calls[Len(PipelineRed)].ret], heap[ret])

(***************************************************************************)
(* C4.  With coercion, a textual cell whose stripped value is numeric      *)
(* looking becomes the number parsed from the stripped value without any   *)
(* whitespace, its commas read as periods when it has a comma and no       *)
(* period; the result is a number or missing, never text.                  *)
(***************************************************************************)
C4_CoercedValue ==
  \A i \in Returned : \A cr \in TextCellsOf(i) :
    LET sv == Trimmed(InCell(i, cr).s, QuoteAndWhitespace)
    IN (cast_numeric /\ NumericLooking(sv)) =>
         /\ Val(OutCell(i, cr)) = Val(ToNumericCoerce(CommaToPeriod(Without(sv, WhitespaceChars))))
         /\ OutCell(i, cr).k # "str"

(***************************************************************************)
(* C5.  The Cell Cleaner never raises because of the content of a cell:    *)
(* a call raises only when two columns got one name, the cell function     *)
(* returns a value for every cell, and with coercion a numeric-looking     *)
(* cell with several separators becomes missing.                           *)
(***************************************************************************)
C5_NeverRaises ==
  \A i \in LimpiarCalls :
    /\ calls[i].raised =>
         \E c1, c2 \in 1..NCols(Out(i)) : c1 # c2 /\ Out(i).cols[c1] = Out(i).cols[c2]
    /\ \A j \in 1..Len(calls[i].mapped.data) : \A r \in 1..Len(calls[i].mapped.data[j]) :
         calls[i].mapped.data[j][r].k \in {"str", "num", "nan", "na"}
    /\ \A jr \in MappedTextCells(i) :
         LET v == Trimmed(GivenCell(i, jr).s, QuoteAndSpace)
         IN (/\ cast_numeric
             /\ NumericLooking(v)
             /\ Len(SelectSeq(v, LAMBDA ch : ch \in {".", ","})) > 1)
              => Missing(ReturnedCell(i, jr))

\* a cell with two separators was cleaned with coercion and is missing in
\* the table returned
C5_Witness ==
  \E i \in Returned : \E jr \in MappedTextCells(i) :
    /\ cast_numeric
    /\ GivenCell(i, jr).s = <<"1", ",", ",">>
    /\ ReturnedCell(i, jr) = NaN
    /\ Out(i).data[1][jr[2]] = NaN

(***************************************************************************)
(* C6.  Without coercion, a textual cell whose stripped value is numeric   *)
(* looking becomes the text of the stripped value without any whitespace,  *)
(* its commas and periods kept; the result holds no whitespace.            *)
(***************************************************************************)
C6_UncoercedText ==
  \A i \in Returned : \A cr \in TextCellsOf(i) :
    LET sv == Trimmed(InCell(i, cr).s, QuoteAndWhitespace)
    IN (~cast_numeric /\ NumericLooking(sv)) =>
         /\ OutCell(i, cr) = Str(Without(sv, WhitespaceChars))
         /\ \A j \in 1..Len(OutCell(i, cr).s) : OutCell(i, cr).s[j] \notin WhitespaceChars

(***************************************************************************)
(* C7 as stated.  A textual cell whose stripped value is not numeric       *)
(* looking becomes the text without its leading and trailing quotes and    *)
(* whitespace, whatever the flag; the result neither begins nor ends with  *)
(* a quote or a whitespace character.                                      *)
(***************************************************************************)
C7_StrippedTextWhitespace ==
  \A i \in Returned : \A cr \in TextCellsOf(i) :
    LET sv == Trimmed(InCell(i, cr).s, QuoteAndWhitespace)
    IN ~NumericLooking(sv) =>
         /\ OutCell(i, cr) = Str(sv)
         /\ sv # <<>> => (sv[1] \notin QuoteAndWhitespace /\ sv[Len(sv)] \notin QuoteAndWhitespace)

(***************************************************************************)
(* C7 amended.  For a textual cell whose value, without its leading and    *)
(* trailing quotes and space characters, is not numeric looking, the cell  *)
(* function returns that text, interior unchanged, whatever the flag; the  *)
(* result neither begins nor ends with a quote or a space character (it    *)
(* may begin or end with other whitespace).                                *)
(***************************************************************************)
C7_StrippedText ==
  \A i \in LimpiarCalls : \A jr \in MappedTextCells(i) :
    LET v == Trimmed(GivenCell(i, jr).s, QuoteAndSpace)
    IN ~NumericLooking(v) =>
         /\ ReturnedCell(i, jr) = Str(v)
         /\ v # <<>> => (v[1] \notin QuoteAndSpace /\ v[Len(v)] \notin QuoteAndSpace)

\* with the flag off, the cell "' a" was cleaned to the text "a", which
\* is in the table returned
C7_Witness ==
  /\ ~cast_numeric
  /\ \E i \in Returned : \E jr \in MappedTextCells(i) :
       /\ GivenCell(i, jr).s = <<"'", " ", "a">>
       /\ ReturnedCell(i, jr) = Str(<<"a">>)
       /\ Out(i).data[1][jr[2]] = Str(<<"a">>)

(***************************************************************************)
(* C8.  The cell phase changes only textual cells of textual columns:      *)
(* the cells of a numeric column and the cells of a textual column that    *)
(* are not text keep their value, and the rows keep their number and       *)
(* order.                                                                  *)
(***************************************************************************)
C8_Frame ==
  \A i \in Returned :
    /\ Len(Out(i).data) = Len(In(i).data)
    /\ \A c \in 1..NCols(In(i)) :
         /\ Len(Out(i).data[c]) = Len(In(i).data[c])
         /\ \A r \in 1..Len(In(i).data[c]) :
              (~IsObjCol(In(i), c) \/ In(i).data[c][r].k # "str")
                => Val(Out(i).data[c][r]) = Val(In(i).data[c][r])

(***************************************************************************)
(* C9.  Neither transformer mutates its input: after each call the table   *)
(* passed in has the names, kinds and cells it had before the call.        *)
(***************************************************************************)
C9_InputUntouched ==
  \A i \in DOMAIN calls : heap[calls[i].arg] = calls[i].before

\* both transformers ran, each returned a table that differs from its
\* input, and the caller's table is as it was
C9_Witness ==
  /\ Len(calls) >= Len(PipelineRed)
  /\ status = "ok"
  /\ \A i \in 1..Len(PipelineRed) : heap[calls[i].ret] # calls[i].before
  /\ heap[0] = calls[1].before

(***************************************************************************)
(* C10.  Transforming a table with the fitted pipeline never raises on a   *)
(* category that was not observed at fit time: the indicators of such a    *)
(* row are all zero, and the transform leaves the fitted vocabulary and    *)
(* scaling statistics as they were.                                        *)
(***************************************************************************)
C10_UnseenCategory ==
  plOut.made =>
    /\ ~plOut.raised
    /\ pl = plOut.fitted
    /\ \A nm \in pl.cat :
         LET seen == {pl.built_on.data[ColumnNamed(pl.built_on, nm)][r] :
                        r \in 1..Len(pl.built_on.data[ColumnNamed(pl.built_on, nm)])}
             column == plOut.input.data[ColumnNamed(plOut.input, nm)]
         IN \A r \in 1..Len(column) :
              column[r] \notin seen =>
                \A cat \in DOMAIN plOut.onehot[nm][r] : plOut.onehot[nm][r][cat] = 0

====
